---- MODULE Spec2Model ----
(***************************************************************************)
(* Model of the two in-memory services of the repository:                  *)
(*   PlayerAccountService (src/src/lambdas/player_account_api/service.py)  *)
(*   IDPService           (src/src/lambdas/idp_api/service.py)             *)
(* Each service method is a pure operator over the stores that returns     *)
(* the raised exception (or none), the returned value and the new stores;  *)
(* one action per method applies it to the process-wide stores.            *)
(***************************************************************************)
EXTENDS Integers, Sequences, FiniteSets, TLC

VARIABLES
    players,    \* PlayerAccountService._players
    stats,      \* PlayerAccountService._stats
    users,      \* IDPService._users
    tokens,     \* IDPService._tokens
    now,        \* the reading of the clock (datetime.utcnow(), int(time.time()))
    ticks,      \* how often the clock of the identity service has moved on
    last,       \* the last call: the method, its key argument, what it raised
    issued,     \* history: every player_id a successful create_player returned
    deleted,    \* history: the player_ids deleted and not returned by a create since
    minted,     \* history: for each token string, when it was last minted
    requests,   \* the create_player calls in flight: where each is, its locals
    overlapped  \* history: a create_player call began while another was in flight

vars == <<players, stats, users, tokens, now, ticks, last, issued, deleted, minted,
          requests, overlapped>>

playerVars == <<players, stats, issued, deleted>>
idpVars == <<users, tokens, ticks, minted>>
threadVars == <<requests, overlapped>>

(***************************************************************************)
(* Bounds of the model.                                                    *)
(***************************************************************************)
\* readings of datetime.utcnow() in the player service: 0..MaxClock
MaxClock == 1
\* how often the clock of the identity service moves on
MaxTicks == 2

\* the steps the clock of the identity service moves on by, in seconds: one
\* second, the lifetime of an access token, the lifetime of a refresh token
ClockSteps == {1, 3600, 86400}

(***************************************************************************)
(* Python values.                                                          *)
(***************************************************************************)
\* Optional[T]: None is the empty tuple, a present value v is <<v>>
None == <<>>
Some(v) == <<v>>

\* no exception raised
NoException == [type |-> "none", message |-> <<>>, status_code |-> 0]

PSNEmulatorException(type, message, status_code) ==
    [type |-> type, message |-> message, status_code |-> status_code]

ValidationException(message) ==
    PSNEmulatorException("ValidationException", message, 400)

AuthenticationException(message) ==
    PSNEmulatorException("AuthenticationException", message, 401)

NotFoundException(message) ==
    PSNEmulatorException("NotFoundException", message, 404)

ConflictException(message) ==
    PSNEmulatorException("ConflictException", message, 409)

\* pydantic's ValidationError: not a PSNEmulatorException, carries no status
PydanticValidationError(message) ==
    [type |-> "pydantic.ValidationError", message |-> message, status_code |-> 0]

(***************************************************************************)
(* dict: a sequence of entries [k, v] in insertion order.                  *)
(***************************************************************************)
DictKeys(d) == {d[i].k : i \in DOMAIN d}

DictHas(d, k) == k \in DictKeys(d)

DictGet(d, k) == d[CHOOSE i \in DOMAIN d : d[i].k = k].v

\* d[k] = v: an existing key keeps its position, a new key is appended
DictSet(d, k, v) ==
    IF DictHas(d, k)
    THEN [i \in DOMAIN d |-> IF d[i].k = k THEN [k |-> k, v |-> v] ELSE d[i]]
    ELSE Append(d, [k |-> k, v |-> v])

\* del d[k]
DictDel(d, k) == SelectSeq(d, LAMBDA e : e.k # k)

\* list(d.values())
DictValues(d) == [i \in DOMAIN d |-> d[i].v]

(***************************************************************************)
(* dict that is only read and written by key: a function on its keys.      *)
(***************************************************************************)
EmptyMap == [k \in {} |-> k]

MapHas(m, k) == k \in DOMAIN m

\* m[k] = v
MapSet(m, k, v) == [x \in DOMAIN m \cup {k} |-> IF x = k THEN v ELSE m[x]]

(***************************************************************************)
(* Email addresses: a local part and a domain; no domain, no valid address.*)
(***************************************************************************)
RawEmails ==
    {[local |-> "a", domain |-> "x.com"],
     [local |-> "a", domain |-> "X.com"],
     [local |-> "b", domain |-> "x.com"],
     [local |-> "bad", domain |-> ""]}

\* str.lower() on the domains of the model
Lower(d) == IF d = "X.com" THEN "x.com" ELSE d

IsValidEmail(e) == e.domain # ""

\* EmailStr: the validated address is the normalized one (domain lowercased)
EmailStr(e) == [local |-> e.local, domain |-> Lower(e.domain)]

\* the address as it appears in an f-string
FormatEmail(e) == IF e.domain = "" THEN e.local ELSE e.local \o "@" \o e.domain

\* the addresses a validated request model can hold
Emails == {EmailStr(e) : e \in {r \in RawEmails : IsValidEmail(r)}}

(***************************************************************************)
(* Models of the player account API.                                       *)
(***************************************************************************)
Usernames == {"alice", "bob"}

PlayerStatusACTIVE == "active"
PlayerStatusSUSPENDED == "suspended"

\* secrets.token_hex(8): 16 hex digits, any of them each time it is called
TokenHex == {"00000000000000a1", "00000000000000b2"}

\* f"plr_{secrets.token_hex(8)}"
PlayerId(hex) == "plr_" \o hex

PlayerIds == {PlayerId(h) : h \in TokenHex}

\* PlayerAccount(player_id=..., username=..., email=..., display_name=...,
\* status=...): the defaults of the other fields, email through EmailStr
PlayerAccount(player_id, username, email, display_name, status, clock) ==
    [player_id |-> player_id,
     username |-> username,
     email |-> EmailStr(email),
     display_name |-> display_name,
     status |-> status,
     level |-> 1,
     experience_points |-> 0,
     created_at |-> clock,
     updated_at |-> clock]

\* PlayerStats(player_id=...)
PlayerStats(player_id) ==
    [player_id |-> player_id,
     total_games |-> 0,
     wins |-> 0,
     losses |-> 0,
     win_rate |-> 0,
     total_playtime_hours |-> 0]

\* the display_name argument of create_player
DisplayNames == {None, Some(""), Some("Neo")}

\* UpdatePlayerRequest: every field optional, email held normalized
UpdatePlayerRequests ==
    [display_name : {None, Some("Neo")},
     email : {None} \cup {Some(e) : e \in Emails},
     status : {None, Some(PlayerStatusSUSPENDED)}]

\* what a service method hands back: the exception raised (or none), the
\* returned value and the stores after the call
Outcome(exc, ret, ps, st) == [exc |-> exc, ret |-> ret, players |-> ps, stats |-> st]

Raised(o) == o.exc.type # "none"

(***************************************************************************)
(* PlayerAccountService.                                                   *)
(***************************************************************************)
\* a scan that compares the email only
FirstConflict_email_only(ps, username, email) ==
    LET hits == {i \in DOMAIN ps : ps[i].v.email = email}
    IN IF hits = {} THEN 0 ELSE CHOOSE i \in hits : \A j \in hits : i <= j

\* the first stored player, in iteration order, that the scan of
\* create_player stops at (0: none)
FirstConflict(ps, username, email) ==
    LET hits == {i \in DOMAIN ps :
                    ps[i].v.username = username \/ ps[i].v.email = email}
    IN IF hits = {} THEN 0 ELSE CHOOSE i \in hits : \A j \in hits : i <= j

\* display_name or username
DisplayNameOr(display_name, username) ==
    IF display_name = None \/ display_name = Some("")
    THEN username
    ELSE display_name[1]

\* a create_player whose scan compares usernames only
create_player_username_only(ps, st, clock, hex, username, email, display_name) ==
    LET player_id == PlayerId(hex)
        player == PlayerAccount(player_id, username, email,
                                DisplayNameOr(display_name, username),
                                PlayerStatusACTIVE, clock)
    IN IF \E i \in DOMAIN ps : ps[i].v.username = username
       THEN Outcome(ConflictException(
                        <<"Username '", username, "' already exists">>),
                    None, ps, st)
       ELSE IF ~IsValidEmail(email)
       THEN Outcome(PydanticValidationError(<<"email">>), None, ps, st)
       ELSE Outcome(NoException, Some(player),
                    DictSet(ps, player_id, player),
                    DictSet(st, player_id, PlayerStats(player_id)))

create_player(ps, st, clock, hex, username, email, display_name) ==
    LET i == FirstConflict(ps, username, email)
        player_id == PlayerId(hex)
        player == PlayerAccount(player_id, username, email,
                                DisplayNameOr(display_name, username),
                                PlayerStatusACTIVE, clock)
    IN IF i # 0
       THEN IF ps[i].v.username = username
            THEN Outcome(ConflictException(
                             <<"Username '", username, "' already exists">>),
                         None, ps, st)
            ELSE Outcome(ConflictException(
                             <<"Email '", FormatEmail(email), "' already exists">>),
                         None, ps, st)
       ELSE IF ~IsValidEmail(email)
       THEN Outcome(PydanticValidationError(<<"email">>), None, ps, st)
       ELSE Outcome(NoException, Some(player),
                    DictSet(ps, player_id, player),
                    DictSet(st, player_id, PlayerStats(player_id)))

get_player(ps, st, player_id) ==
    IF ~DictHas(ps, player_id)
    THEN Outcome(NotFoundException(
                     <<"Player with ID '", player_id, "' not found">>),
                 None, ps, st)
    ELSE Outcome(NoException, Some(DictGet(ps, player_id)), ps, st)

\* the scan of update_player: another player already holds the address
EmailHeldByOther(ps, player_id, email) ==
    \E i \in DOMAIN ps : ps[i].k # player_id /\ ps[i].v.email = email

\* an update that resets the status when the patch does not name one
ApplyUpdate_resets_status(player, req, clock) ==
    [player EXCEPT
        !.display_name = IF req.display_name # None THEN req.display_name[1] ELSE @,
        !.email = IF req.email # None THEN req.email[1] ELSE @,
        !.status = IF req.status # None THEN req.status[1] ELSE PlayerStatusACTIVE,
        !.updated_at = clock]

\* the three "if ... is not None" assignments and the bump of updated_at
ApplyUpdate(player, req, clock) ==
    [player EXCEPT
        !.display_name = IF req.display_name # None THEN req.display_name[1] ELSE @,
        !.email = IF req.email # None THEN req.email[1] ELSE @,
        !.status = IF req.status # None THEN req.status[1] ELSE @,
        !.updated_at = clock]

\* an update_player that assigns display_name and status before it scans
\* for the email
update_player_writes_before_scan(ps, st, clock, player_id, req) ==
    LET got == get_player(ps, st, player_id)
    IN IF Raised(got)
       THEN got
       ELSE IF req.email # None /\ EmailHeldByOther(ps, player_id, req.email[1])
       THEN Outcome(ConflictException(
                        <<"Email '", FormatEmail(req.email[1]), "' already exists">>),
                    None,
                    DictSet(ps, player_id,
                            [got.ret[1] EXCEPT
                                !.display_name = IF req.display_name # None
                                                 THEN req.display_name[1] ELSE @,
                                !.status = IF req.status # None
                                           THEN req.status[1] ELSE @]),
                    st)
       ELSE LET player == ApplyUpdate(got.ret[1], req, clock)
            IN Outcome(NoException, Some(player),
                       DictSet(ps, player_id, player), st)

update_player(ps, st, clock, player_id, req) ==
    LET got == get_player(ps, st, player_id)
    IN IF Raised(got)
       THEN got
       ELSE IF req.email # None /\ EmailHeldByOther(ps, player_id, req.email[1])
       THEN Outcome(ConflictException(
                        <<"Email '", FormatEmail(req.email[1]), "' already exists">>),
                    None, ps, st)
       ELSE LET player == ApplyUpdate(got.ret[1], req, clock)
            IN Outcome(NoException, Some(player),
                       DictSet(ps, player_id, player), st)

\* a delete_player that leaves the stats record behind
delete_player_keeps_stats(ps, st, player_id) ==
    IF ~DictHas(ps, player_id)
    THEN Outcome(NotFoundException(
                     <<"Player with ID '", player_id, "' not found">>),
                 None, ps, st)
    ELSE Outcome(NoException, None, DictDel(ps, player_id), st)

\* a delete_player that removes the stats record only
delete_player_keeps_account(ps, st, player_id) ==
    IF ~DictHas(ps, player_id)
    THEN Outcome(NotFoundException(
                     <<"Player with ID '", player_id, "' not found">>),
                 None, ps, st)
    ELSE Outcome(NoException, None, ps,
                 IF DictHas(st, player_id) THEN DictDel(st, player_id) ELSE st)

delete_player(ps, st, player_id) ==
    IF ~DictHas(ps, player_id)
    THEN Outcome(NotFoundException(
                     <<"Player with ID '", player_id, "' not found">>),
                 None, ps, st)
    ELSE Outcome(NoException, None,
                 DictDel(ps, player_id),
                 IF DictHas(st, player_id) THEN DictDel(st, player_id) ELSE st)

list_players(ps, st) == Outcome(NoException, Some(DictValues(ps)), ps, st)

get_player_stats(ps, st, player_id) ==
    LET got == get_player(ps, st, player_id)
    IN IF Raised(got)
       THEN got
       ELSE IF ~DictHas(st, player_id)
       THEN Outcome(NotFoundException(
                        <<"Stats for player '", player_id, "' not found">>),
                    None, ps, st)
       ELSE Outcome(NoException, Some(DictGet(st, player_id)), ps, st)

(***************************************************************************)
(* IDPService.                                                             *)
(***************************************************************************)
\* the lifetime of an access token, of a refresh token, and expires_in
AccessTtl == 3600
RefreshTtl == 86400
ExpiresIn == 3600

\* IDPService._users as the class body sets it
SeedUsers ==
    [k \in {"testuser"} |->
        [user_id |-> "usr_001",
         username |-> "testuser",
         password |-> "password123",
         email |-> [local |-> "testuser", domain |-> "example.com"],
         is_active |-> TRUE,
         created_at |-> 0]]

\* the usernames and passwords presented to authenticate
LoginNames == {"testuser", "nobody"}
Passwords == {"password123", "wrongpass1"}

\* secrets.token_urlsafe(32): any of the values of the generator, each time
TokenUrlsafe == {"tok_Ab3", "tok_Cd5", "tok_Ef7"}

\* the strings presented as a token: the generator's, and one it never makes
PresentedTokens == TokenUrlsafe \cup {"garbage"}

\* a value of _tokens; expires_at is kept as the integer that str() writes
\* and int() reads back
TokenData(user_id, username, type, expires_at) ==
    [user_id |-> user_id, username |-> username, type |-> type,
     expires_at |-> expires_at]

\* TokenResponse(access_token=..., refresh_token=..., expires_in=...)
TokenResponse(access_token, refresh_token, expires_in) ==
    [access_token |-> access_token,
     token_type |-> "Bearer",
     expires_in |-> expires_in,
     refresh_token |-> refresh_token]

\* UserInfo(...): the projection of a user record
UserInfo(user) ==
    [user_id |-> user.user_id,
     username |-> user.username,
     email |-> EmailStr(user.email),
     is_active |-> user.is_active,
     created_at |-> user.created_at]

IdpOutcome(exc, ret, tk) == [exc |-> exc, ret |-> ret, tokens |-> tk]

\* an authenticate that tells an unknown user from a wrong password
authenticate_names_unknown_user(us, tk, clock, access_token, refresh_token, username, password) ==
    IF ~MapHas(us, username)
    THEN IdpOutcome(AuthenticationException("Unknown user"), None, tk)
    ELSE IF us[username].password # password
    THEN IdpOutcome(AuthenticationException("Invalid username or password"),
                    None, tk)
    ELSE IdpOutcome(
             NoException,
             Some(TokenResponse(access_token, Some(refresh_token), ExpiresIn)),
             MapSet(MapSet(tk, access_token,
                           TokenData(us[username].user_id, username, "access",
                                     clock + AccessTtl)),
                    refresh_token,
                    TokenData(us[username].user_id, username, "refresh",
                              clock + RefreshTtl)))

\* access_token and refresh_token are the two values _generate_token returned
authenticate(us, tk, clock, access_token, refresh_token, username, password) ==
    IF ~MapHas(us, username) \/ us[username].password # password
    THEN IdpOutcome(AuthenticationException("Invalid username or password"),
                    None, tk)
    ELSE LET user == us[username]
         IN IF ~user.is_active
            THEN IdpOutcome(AuthenticationException("Account is not active"),
                            None, tk)
            ELSE IdpOutcome(
                     NoException,
                     Some(TokenResponse(access_token, Some(refresh_token), ExpiresIn)),
                     MapSet(MapSet(tk, access_token,
                                     TokenData(user.user_id, username, "access",
                                               clock + AccessTtl)),
                             refresh_token,
                             TokenData(user.user_id, username, "refresh",
                                       clock + RefreshTtl)))

\* int(token_data["expires_at"]) < int(time.time())
IsExpired(token_data, clock) == token_data.expires_at < clock

\* a get_user_info without the check of the token's kind
get_user_info_any_type(us, tk, clock, token) ==
    IF ~MapHas(tk, token)
    THEN IdpOutcome(AuthenticationException("Invalid or expired token"), None, tk)
    ELSE LET token_data == tk[token]
         IN IF IsExpired(token_data, clock)
            THEN IdpOutcome(AuthenticationException("Token has expired"), None, tk)
            ELSE IF ~MapHas(us, token_data.username)
            THEN IdpOutcome(NotFoundException("User not found"), None, tk)
            ELSE IdpOutcome(NoException,
                            Some(UserInfo(us[token_data.username])), tk)

get_user_info(us, tk, clock, token) ==
    IF ~MapHas(tk, token)
    THEN IdpOutcome(AuthenticationException("Invalid or expired token"), None, tk)
    ELSE LET token_data == tk[token]
         IN IF token_data.type # "access"
            THEN IdpOutcome(AuthenticationException("Invalid token type"), None, tk)
            ELSE IF IsExpired(token_data, clock)
            THEN IdpOutcome(AuthenticationException("Token has expired"), None, tk)
            ELSE IF ~MapHas(us, token_data.username)
            THEN IdpOutcome(NotFoundException("User not found"), None, tk)
            ELSE IdpOutcome(NoException,
                            Some(UserInfo(us[token_data.username])), tk)

\* a refresh_token that records the user id as the username of the new token
refresh_token_mixes_up_owner(us, tk, clock, access_token, token) ==
    IF ~MapHas(tk, token)
    THEN IdpOutcome(AuthenticationException("Invalid refresh token"), None, tk)
    ELSE LET token_data == tk[token]
         IN IF token_data.type # "refresh"
            THEN IdpOutcome(AuthenticationException("Invalid token type"), None, tk)
            ELSE IF IsExpired(token_data, clock)
            THEN IdpOutcome(AuthenticationException("Refresh token has expired"),
                            None, tk)
            ELSE IdpOutcome(
                     NoException,
                     Some(TokenResponse(access_token, None, ExpiresIn)),
                     MapSet(tk, access_token,
                             TokenData(token_data.user_id, token_data.user_id,
                                       "access", clock + AccessTtl)))

\* access_token is the value _generate_token returned
refresh_token(us, tk, clock, access_token, token) ==
    IF ~MapHas(tk, token)
    THEN IdpOutcome(AuthenticationException("Invalid refresh token"), None, tk)
    ELSE LET token_data == tk[token]
         IN IF token_data.type # "refresh"
            THEN IdpOutcome(AuthenticationException("Invalid token type"), None, tk)
            ELSE IF IsExpired(token_data, clock)
            THEN IdpOutcome(AuthenticationException("Refresh token has expired"),
                            None, tk)
            ELSE IdpOutcome(
                     NoException,
                     Some(TokenResponse(access_token, None, ExpiresIn)),
                     MapSet(tk, access_token,
                             TokenData(token_data.user_id, token_data.username,
                                       "access", clock + AccessTtl)))

(***************************************************************************)
(* The inbound event and the outbound response of both lambda handlers.    *)
(* A path is the sequence of its segments: <<"players", id>> is            *)
(* "/players/<id>", <<>> is the empty path.  A body is None or Some(text); *)
(* a text is empty, not JSON, or the JSON text of a value; an object is    *)
(* the map of its keys, a null member is None, another one Some(value).    *)
(***************************************************************************)
EmptyText == [text |-> "empty"]
InvalidText == [text |-> "invalid"]
JsonText(value) == [text |-> "json", value |-> value]

JsonObject(fields) == [type |-> "object", fields |-> fields]
JsonArray == [type |-> "array", fields |-> EmptyMap]
JsonNull == [type |-> "null", fields |-> EmptyMap]

\* an exception that is no PSNEmulatorException
OtherException(type) == [type |-> type, message |-> <<>>, status_code |-> 0]

\* json.loads(text)
json_loads(text) ==
    IF text.text = "json"
    THEN [exc |-> NoException, value |-> text.value]
    ELSE [exc |-> OtherException("json.JSONDecodeError"), value |-> JsonNull]

\* path.endswith("/" + "/".join(suffix))
EndsWith(path, suffix) ==
    /\ Len(path) >= Len(suffix)
    /\ SubSeq(path, Len(path) - Len(suffix) + 1, Len(path)) = suffix

\* "/<segment>/" in path
ContainsSegment(path, segment) ==
    \E i \in 1..(Len(path) - 1) : path[i] = segment

\* the path as it appears in an f-string
RECURSIVE FormatPath(_)
FormatPath(path) ==
    IF path = <<>> THEN "" ELSE "/" \o Head(path) \o FormatPath(Tail(path))

ResponseHeaders ==
    [ContentType |-> "application/json", AccessControlAllowOrigin |-> "*"]

\* ErrorResponse(error=..., message=...), its timestamp the clock's reading
ErrorResponse(error, message, clock) ==
    [error |-> error, message |-> message, details |-> None, timestamp |-> clock]

create_error_response(status_code, error_type, message, clock) ==
    [statusCode |-> status_code,
     headers |-> ResponseHeaders,
     body |-> Some(ErrorResponse(error_type, message, clock))]

\* the body is the JSON text of data; the player handler writes no text for
\* data that is falsy
create_success_response(status_code, data) ==
    [statusCode |-> status_code, headers |-> ResponseHeaders, body |-> data]

\* except clauses without the last one, "except Exception": an unexpected
\* exception leaves lambda_handler, which returns no response (written as
\* the status code 0 of no envelope)
HandleException_without_catch_all(exc, clock) ==
    IF exc.type = "ValidationException"
    THEN create_error_response(exc.status_code, "VALIDATION_ERROR", exc.message, clock)
    ELSE IF exc.type \in {"AuthenticationException", "NotFoundException",
                          "ConflictException", "PSNEmulatorException"}
    THEN create_error_response(exc.status_code, "SERVICE_ERROR", exc.message, clock)
    ELSE [statusCode |-> 0, headers |-> EmptyMap, body |-> None]

\* except clauses that hand the text of an unexpected exception to the caller
HandleException_leaks_text(exc, clock) ==
    IF exc.type = "ValidationException"
    THEN create_error_response(exc.status_code, "VALIDATION_ERROR", exc.message, clock)
    ELSE IF exc.type \in {"AuthenticationException", "NotFoundException",
                          "ConflictException", "PSNEmulatorException"}
    THEN create_error_response(exc.status_code, "SERVICE_ERROR", exc.message, clock)
    ELSE create_error_response(500, "INTERNAL_ERROR", exc.type, clock)

\* the three except clauses of lambda_handler
HandleException(exc, clock) ==
    IF exc.type = "ValidationException"
    THEN create_error_response(exc.status_code, "VALIDATION_ERROR", exc.message, clock)
    ELSE IF exc.type \in {"AuthenticationException", "NotFoundException",
                          "ConflictException", "PSNEmulatorException"}
    THEN create_error_response(exc.status_code, "SERVICE_ERROR", exc.message, clock)
    ELSE create_error_response(500, "INTERNAL_ERROR",
                               "An unexpected error occurred", clock)

\* body.get(key): None for an absent key and for a null member
Member(body, key) ==
    IF key \in DOMAIN body.fields THEN body.fields[key] ELSE None

(***************************************************************************)
(* Player account API: handler.py.                                         *)
(***************************************************************************)
\* what the handler hands back: the response and the stores after it
Handled(response, ps, st) == [response |-> response, players |-> ps, stats |-> st]

\* CreatePlayerRequest(**body): the exception raised, or the validated fields
CreatePlayerRequest(body) ==
    LET username == Member(body, "username")
        email == Member(body, "email")
        display_name == Member(body, "display_name")
    IN IF body.type # "object"
       THEN [exc |-> OtherException("TypeError")]
       ELSE IF \/ username = None
               \/ Len(username[1]) < 3
               \/ Len(username[1]) > 30
               \/ email = None
               \/ ~IsValidEmail(email[1])
               \/ (display_name # None /\ Len(display_name[1]) > 50)
       THEN [exc |-> PydanticValidationError(<<"CreatePlayerRequest">>)]
       ELSE [exc |-> NoException,
             username |-> username[1],
             email |-> EmailStr(email[1]),
             display_name |-> display_name]

\* UpdatePlayerRequest(**body)
UpdatePlayerRequest(body) ==
    LET display_name == Member(body, "display_name")
        email == Member(body, "email")
        status == Member(body, "status")
    IN IF body.type # "object"
       THEN [exc |-> OtherException("TypeError")]
       ELSE IF \/ (display_name # None /\ Len(display_name[1]) > 50)
               \/ (email # None /\ ~IsValidEmail(email[1]))
               \/ (status # None
                     /\ status[1] \notin {"active", "suspended", "banned", "inactive"})
       THEN [exc |-> PydanticValidationError(<<"UpdatePlayerRequest">>)]
       ELSE [exc |-> NoException,
             req |-> [display_name |-> display_name,
                      email |-> IF email = None THEN None ELSE Some(EmailStr(email[1])),
                      status |-> status]]

\* except ValidationError as e: raise ValidationException(str(e)) from e
WrapValidationError(exc) ==
    IF exc.type = "pydantic.ValidationError"
    THEN ValidationException(exc.message)
    ELSE exc

\* a handler's call of the service: its result as a response, or the
\* exception as lambda_handler's except clauses answer it
Answer(o, status_code, clock) ==
    IF Raised(o)
    THEN Handled(HandleException(o.exc, clock), o.players, o.stats)
    ELSE Handled(create_success_response(status_code, o.ret), o.players, o.stats)

\* the same inside a try block that wraps pydantic's ValidationError
AnswerWrapped(o, status_code, clock) ==
    Answer([o EXCEPT !.exc = WrapValidationError(@)], status_code, clock)

handle_create_player(ps, st, clock, hex, body) ==
    LET request == CreatePlayerRequest(body)
    IN IF request.exc.type # "none"
       THEN Handled(HandleException(WrapValidationError(request.exc), clock), ps, st)
       ELSE AnswerWrapped(create_player(ps, st, clock, hex, request.username,
                                        request.email, request.display_name),
                          201, clock)

handle_get_player(ps, st, clock, player_id) ==
    Answer(get_player(ps, st, player_id), 200, clock)

handle_update_player(ps, st, clock, player_id, body) ==
    LET request == UpdatePlayerRequest(body)
    IN IF request.exc.type # "none"
       THEN Handled(HandleException(WrapValidationError(request.exc), clock), ps, st)
       ELSE AnswerWrapped(update_player(ps, st, clock, player_id, request.req),
                          200, clock)

\* a handle_delete_player that answers 200
handle_delete_player_answers_200(ps, st, clock, player_id) ==
    Answer(delete_player(ps, st, player_id), 200, clock)

\* create_success_response(204, {}): the empty dict is written as no text
handle_delete_player(ps, st, clock, player_id) ==
    Answer(delete_player(ps, st, player_id), 204, clock)

\* {"players": [...], "count": len(players)}
handle_list_players(ps, st, clock) ==
    Handled(create_success_response(
                200, Some([players |-> DictValues(ps), count |-> Len(ps)])),
            ps, st)

handle_get_player_stats(ps, st, clock, player_id) ==
    Answer(get_player_stats(ps, st, player_id), 200, clock)

\* an id that is taken from the path when the path parameters hold none
PathPlayerId_falls_back_to_path(event) ==
    IF event.pathParameters = None
       \/ "player_id" \notin DOMAIN event.pathParameters[1]
       \/ event.pathParameters[1]["player_id"] = ""
    THEN IF Len(event.path) >= 2 THEN event.path[2] ELSE ""
    ELSE event.pathParameters[1]["player_id"]

\* path_params.get("player_id") of event.get("pathParameters") or {}
PathPlayerId(event) ==
    IF event.pathParameters = None
       \/ "player_id" \notin DOMAIN event.pathParameters[1]
    THEN ""
    ELSE event.pathParameters[1]["player_id"]

\* a body expression that takes a text that is not JSON for {}
PlayerBody_swallows_decode_error(event) ==
    IF event.body = None \/ event.body[1] = EmptyText \/ event.body[1] = InvalidText
    THEN [exc |-> NoException, value |-> JsonObject(EmptyMap)]
    ELSE json_loads(event.body[1])

\* a body expression that hands every present body, the empty string
\* included, to json.loads
PlayerBody_parses_empty(event) ==
    IF event.body = None
    THEN [exc |-> NoException, value |-> JsonObject(EmptyMap)]
    ELSE json_loads(event.body[1])

\* json.loads(event.get("body", "{}")) if event.get("body") else {}
PlayerBody(event) ==
    IF event.body = None \/ event.body[1] = EmptyText
    THEN [exc |-> NoException, value |-> JsonObject(EmptyMap)]
    ELSE json_loads(event.body[1])

\* a chain that tests the route of a single player before the route of its
\* stats
PlayerRoute_generic_first(http_method, path) ==
    IF http_method = "POST" /\ EndsWith(path, <<"players">>)
    THEN "create_player"
    ELSE IF http_method = "GET" /\ EndsWith(path, <<"players">>)
    THEN "list_players"
    ELSE IF http_method = "GET" /\ ContainsSegment(path, "players")
    THEN "get_player"
    ELSE IF /\ http_method = "GET"
            /\ ContainsSegment(path, "players")
            /\ EndsWith(path, <<"stats">>)
    THEN "get_player_stats"
    ELSE IF http_method = "PUT" /\ ContainsSegment(path, "players")
    THEN "update_player"
    ELSE IF http_method = "DELETE" /\ ContainsSegment(path, "players")
    THEN "delete_player"
    ELSE "not_found"

\* the if/elif chain of lambda_handler: the handler of the first test that
\* the method and the path pass
PlayerRoute(http_method, path) ==
    IF http_method = "POST" /\ EndsWith(path, <<"players">>)
    THEN "create_player"
    ELSE IF http_method = "GET" /\ EndsWith(path, <<"players">>)
    THEN "list_players"
    ELSE IF /\ http_method = "GET"
            /\ ContainsSegment(path, "players")
            /\ EndsWith(path, <<"stats">>)
    THEN "get_player_stats"
    ELSE IF http_method = "GET" /\ ContainsSegment(path, "players")
    THEN "get_player"
    ELSE IF http_method = "PUT" /\ ContainsSegment(path, "players")
    THEN "update_player"
    ELSE IF http_method = "DELETE" /\ ContainsSegment(path, "players")
    THEN "delete_player"
    ELSE "not_found"

player_lambda_handler(ps, st, clock, hex, event) ==
    LET http_method == event.httpMethod
        path == event.path
        player_id == PathPlayerId(event)
        body == PlayerBody(event)
        route == PlayerRoute(http_method, path)
        bad_request == Handled(create_error_response(
                                   400, "BAD_REQUEST", "player_id is required", clock),
                               ps, st)
    IN IF Raised(body)
       THEN Handled(HandleException(body.exc, clock), ps, st)
       ELSE IF route = "create_player"
       THEN handle_create_player(ps, st, clock, hex, body.value)
       ELSE IF route = "list_players"
       THEN handle_list_players(ps, st, clock)
       ELSE IF route = "not_found"
       THEN Handled(create_error_response(
                        404, "NOT_FOUND",
                        <<"Endpoint not found: ", http_method, " ", FormatPath(path)>>,
                        clock),
                    ps, st)
       ELSE IF player_id = ""
       THEN bad_request
       ELSE IF route = "get_player_stats"
       THEN handle_get_player_stats(ps, st, clock, player_id)
       ELSE IF route = "get_player"
       THEN handle_get_player(ps, st, clock, player_id)
       ELSE IF route = "update_player"
       THEN handle_update_player(ps, st, clock, player_id, body.value)
       ELSE handle_delete_player(ps, st, clock, player_id)

(***************************************************************************)
(* Identity provider API: handler.py.                                      *)
(***************************************************************************)
IdpHandled(response, tk) == [response |-> response, tokens |-> tk]

\* AuthenticationRequest(**body)
AuthenticationRequest(body) ==
    LET username == Member(body, "username")
        password == Member(body, "password")
    IN IF body.type # "object"
       THEN [exc |-> OtherException("TypeError")]
       ELSE IF \/ username = None
               \/ Len(username[1]) < 3
               \/ Len(username[1]) > 50
               \/ password = None
               \/ Len(password[1]) < 8
       THEN [exc |-> PydanticValidationError(<<"AuthenticationRequest">>)]
       ELSE [exc |-> NoException,
             username |-> username[1],
             password |-> password[1]]

IdpAnswer(o, clock) ==
    IF Raised(o)
    THEN IdpHandled(HandleException(o.exc, clock), o.tokens)
    ELSE IdpHandled(create_success_response(200, o.ret), o.tokens)

handle_authentication(us, tk, clock, access_token, refresh, body) ==
    LET auth_request == AuthenticationRequest(body)
    IN IF auth_request.exc.type # "none"
       THEN IdpHandled(HandleException(WrapValidationError(auth_request.exc), clock),
                       tk)
       ELSE IdpAnswer(authenticate(us, tk, clock, access_token, refresh,
                                   auth_request.username, auth_request.password),
                      clock)

\* event.headers is None or Some(map); a header value is <<scheme, rest>>,
\* the string scheme followed by rest, which starts with "Bearer " exactly
\* when scheme is "Bearer "; auth_header.replace("Bearer ", "") is then rest
\* (no rest of the model holds "Bearer " again)
handle_userinfo(us, tk, clock, event) ==
    LET headers == event.headers
        auth_header == IF "Authorization" \in DOMAIN headers[1]
                       THEN headers[1]["Authorization"]
                       ELSE <<"", "">>
    IN IF headers = None
       THEN IdpHandled(HandleException(OtherException("AttributeError"), clock), tk)
       ELSE IF auth_header[1] # "Bearer "
       THEN IdpHandled(HandleException(
                           ValidationException("Invalid or missing Authorization header"),
                           clock),
                       tk)
       ELSE IdpAnswer(get_user_info(us, tk, clock, auth_header[2]), clock)

handle_token_refresh(us, tk, clock, access_token, body) ==
    LET token == Member(body, "refresh_token")
    IN IF body.type # "object"
       THEN IdpHandled(HandleException(OtherException("AttributeError"), clock), tk)
       ELSE IF token = None \/ token[1] = ""
       THEN IdpHandled(HandleException(
                           ValidationException("refresh_token is required"), clock),
                       tk)
       ELSE IdpAnswer(refresh_token(us, tk, clock, access_token, token[1]), clock)

\* json.loads(event.get("body", "{}") or "{}")
IdpBody(event) ==
    IF event.body = None \/ event.body[1] = EmptyText
    THEN [exc |-> NoException, value |-> JsonObject(EmptyMap)]
    ELSE json_loads(event.body[1])

idp_lambda_handler(us, tk, clock, access_token, refresh, event) ==
    LET body == IdpBody(event)
        http_method == event.httpMethod
        path == event.path
    IN IF Raised(body)
       THEN IdpHandled(HandleException(body.exc, clock), tk)
       ELSE IF http_method = "POST" /\ EndsWith(path, <<"auth", "token">>)
       THEN handle_authentication(us, tk, clock, access_token, refresh, body.value)
       ELSE IF http_method = "GET" /\ EndsWith(path, <<"auth", "userinfo">>)
       THEN handle_userinfo(us, tk, clock, event)
       ELSE IF http_method = "POST" /\ EndsWith(path, <<"auth", "refresh">>)
       THEN handle_token_refresh(us, tk, clock, access_token, body.value)
       ELSE IdpHandled(create_error_response(
                           404, "NOT_FOUND",
                           <<"Endpoint not found: ", http_method, " ",
                             FormatPath(path)>>,
                           clock),
                       tk)

(***************************************************************************)
(* State: the class attributes of the two services, the clock, and what    *)
(* the last call was and raised.                                           *)
(***************************************************************************)
\* the threads of one process that call create_player
Workers == {"w1", "w2"}

\* a thread that is not inside create_player
Idle ==
    [pc |-> "idle", username |-> "", email |-> [local |-> "", domain |-> ""],
     player_id |-> ""]

Init ==
    /\ players = <<>>
    /\ stats = <<>>
    /\ users = SeedUsers
    /\ tokens = EmptyMap
    /\ now = 0
    /\ ticks = 0
    /\ last = [op |-> "init", id |-> "", exc |-> NoException]
    /\ issued = {}
    /\ deleted = {}
    /\ minted = EmptyMap
    /\ requests = [w \in Workers |-> Idle]
    /\ overlapped = FALSE

\* the player stores take the outcome of the call, the call is recorded
Apply(op, id, o) ==
    /\ players' = o.players
    /\ stats' = o.stats
    /\ last' = [op |-> op, id |-> id, exc |-> o.exc]

\* the values the generator can return in a call that reaches it, and the
\* one value that stands for "not called" in a call that raises before
NotDrawn == ""
Drawn(reached, values) == IF reached THEN values ELSE {NotDrawn}

CreatePlayer ==
    \E username \in Usernames, email \in RawEmails, display_name \in DisplayNames :
      \E hex \in Drawn(~Raised(create_player(players, stats, now, NotDrawn,
                                             username, email, display_name)),
                        TokenHex) :
        LET o == create_player(players, stats, now, hex, username, email, display_name)
        IN /\ Apply("create_player",
                    IF Raised(o) THEN "" ELSE o.ret[1].player_id, o)
           /\ issued' = IF Raised(o) THEN issued ELSE issued \cup {o.ret[1].player_id}
           /\ deleted' = IF Raised(o) THEN deleted ELSE deleted \ {o.ret[1].player_id}
           /\ UNCHANGED <<now, idpVars, threadVars>>

GetPlayer ==
    \E player_id \in PlayerIds :
        /\ Apply("get_player", player_id, get_player(players, stats, player_id))
        /\ UNCHANGED <<now, issued, deleted, idpVars, threadVars>>

UpdatePlayer ==
    \E player_id \in PlayerIds, req \in UpdatePlayerRequests :
        /\ Apply("update_player", player_id,
                 update_player(players, stats, now, player_id, req))
        /\ UNCHANGED <<now, issued, deleted, idpVars, threadVars>>

DeletePlayer ==
    \E player_id \in PlayerIds :
        LET o == delete_player(players, stats, player_id)
        IN /\ Apply("delete_player", player_id, o)
           /\ deleted' = IF Raised(o) THEN deleted ELSE deleted \cup {player_id}
           /\ UNCHANGED <<now, issued, idpVars, threadVars>>

ListPlayers ==
    /\ Apply("list_players", "", list_players(players, stats))
    /\ UNCHANGED <<now, issued, deleted, idpVars, threadVars>>

GetPlayerStats ==
    \E player_id \in PlayerIds :
        /\ Apply("get_player_stats", player_id,
                 get_player_stats(players, stats, player_id))
        /\ UNCHANGED <<now, issued, deleted, idpVars, threadVars>>

\* datetime.utcnow() moves on between calls
Tick ==
    /\ now < MaxClock
    /\ now' = now + 1
    /\ UNCHANGED <<playerVars, idpVars, last, threadVars>>

PlayerNext ==
    \/ CreatePlayer
    \/ GetPlayer
    \/ UpdatePlayer
    \/ DeletePlayer
    \/ ListPlayers
    \/ GetPlayerStats
    \/ Tick

PlayerSpec == Init /\ [][PlayerNext]_vars

\* the token store takes the outcome of the call, the call is recorded
ApplyIdp(op, id, o) ==
    /\ tokens' = o.tokens
    /\ last' = [op |-> op, id |-> id, exc |-> o.exc]

Authenticate ==
    \E username \in LoginNames, password \in Passwords :
      \E access_token, refresh \in
            Drawn(~Raised(authenticate(users, tokens, now, NotDrawn, NotDrawn,
                                       username, password)),
                  TokenUrlsafe) :
        LET o == authenticate(users, tokens, now, access_token, refresh,
                              username, password)
        IN /\ ApplyIdp("authenticate", username, o)
           /\ minted' = IF Raised(o)
                        THEN minted
                        ELSE MapSet(MapSet(minted, access_token, now), refresh, now)
           /\ UNCHANGED <<users, now, ticks, playerVars, threadVars>>

GetUserInfo ==
    \E token \in PresentedTokens :
        /\ ApplyIdp("get_user_info", token,
                    get_user_info(users, tokens, now, token))
        /\ UNCHANGED <<users, now, ticks, minted, playerVars, threadVars>>

RefreshToken ==
    \E token \in PresentedTokens :
      \E access_token \in
            Drawn(~Raised(refresh_token(users, tokens, now, NotDrawn, token)),
                  TokenUrlsafe) :
        LET o == refresh_token(users, tokens, now, access_token, token)
        IN /\ ApplyIdp("refresh_token", token, o)
           /\ minted' = IF Raised(o) THEN minted ELSE MapSet(minted, access_token, now)
           /\ UNCHANGED <<users, now, ticks, playerVars, threadVars>>

\* time.time() moves on between calls, by a second or by a token lifetime
IdpTick ==
    \E d \in ClockSteps :
        /\ ticks < MaxTicks
        /\ now' = now + d
        /\ ticks' = ticks + 1
        /\ UNCHANGED <<users, tokens, minted, last, playerVars, threadVars>>

IdpNext ==
    \/ Authenticate
    \/ GetUserInfo
    \/ RefreshToken
    \/ IdpTick

IdpSpec == Init /\ [][IdpNext]_vars

(***************************************************************************)
(* The player account API behind its router: one step is one call of       *)
(* lambda_handler on an event of API Gateway.                              *)
(***************************************************************************)
\* a JSON object with the given members (a null member is None)
CreateBody(username, email, display_name) ==
    JsonObject([k \in {"username", "email", "display_name"} |->
                   CASE k = "username" -> username
                     [] k = "email" -> email
                     [] k = "display_name" -> display_name])

UpdateBody(display_name, email, status) ==
    JsonObject([k \in {"display_name", "email", "status"} |->
                   CASE k = "display_name" -> display_name
                     [] k = "email" -> email
                     [] k = "status" -> status])

\* the JSON texts sent to POST /players: every member valid, and one text
\* for each way of being invalid
CreateBodies ==
    {CreateBody(Some(username), Some(email), display_name) :
        username \in Usernames,
        email \in {e \in RawEmails : IsValidEmail(e)},
        display_name \in {None}}
    \cup {CreateBody(Some("al"), Some([local |-> "a", domain |-> "x.com"]), None),
          CreateBody(Some("alice"), Some([local |-> "bad", domain |-> ""]), None),
          JsonObject(EmptyMap)}

\* the JSON texts sent to PUT /players/{player_id}
UpdateBodies ==
    {UpdateBody(None, None, None),
     UpdateBody(Some("Neo"), None, None),
     UpdateBody(None, Some([local |-> "b", domain |-> "X.com"]), None),
     UpdateBody(None, None, Some(PlayerStatusSUSPENDED)),
     UpdateBody(None, None, Some("bogus"))}

\* event["body"]: absent or null, "", a text that is not JSON, "null", "[]"
NoBodies == {None, Some(EmptyText)}
BadBodies == {Some(InvalidText), Some(JsonText(JsonNull)), Some(JsonText(JsonArray))}

PlayerEvent(http_method, path, path_params, body) ==
    [httpMethod |-> http_method, path |-> path, pathParameters |-> path_params,
     body |-> body]

\* event["pathParameters"]: null, or the map API Gateway took from the path
PathParams(player_id) == {None, Some([k \in {"player_id"} |-> player_id])}

\* the requests that match a route of the player router
PlayerRouteEvents ==
    {PlayerEvent("POST", <<"players">>, None, body) :
        body \in {Some(JsonText(b)) : b \in CreateBodies} \cup NoBodies \cup BadBodies}
    \cup {PlayerEvent("GET", <<"players">>, None, body) : body \in NoBodies}
    \cup UNION {{PlayerEvent(http_method, <<"players", player_id>> \o tail,
                             path_params, body) :
                    http_method \in {"GET", "DELETE"},
                    tail \in {<<>>, <<"stats">>},
                    path_params \in PathParams(player_id),
                    body \in {None}} : player_id \in PlayerIds}
    \cup UNION {{PlayerEvent("PUT", <<"players", player_id>>,
                             Some([k \in {"player_id"} |-> player_id]), body) :
                    body \in {Some(JsonText(b)) : b \in UpdateBodies}
                             \cup {None, Some(InvalidText)}} : player_id \in PlayerIds}
    \cup {PlayerEvent("PUT", <<"players", "plr_00000000000000a1">>, None, None)}

\* requests whose method and path match no route of the player router
PlayerUnmatched ==
    {<<"PATCH", <<"players">>>>, <<"PUT", <<"players">>>>,
     <<"DELETE", <<"players">>>>, <<"GET", <<"health">>>>,
     <<"POST", <<"players", "plr_00000000000000a1">>>>, <<"GET", <<>>>>}

PlayerUnmatchedEvents ==
    {PlayerEvent(mp[1], mp[2], None, body) :
        mp \in PlayerUnmatched,
        body \in {None, Some(InvalidText)}}
    \cup {PlayerEvent("PATCH", <<"players">>,
                      Some([k \in {"player_id"} |-> "plr_00000000000000a1"]), None)}

PlayerEvents == PlayerRouteEvents \cup PlayerUnmatchedEvents

\* what the record of the last call keeps of a request and of its response
BodyKind(body) ==
    IF body = None THEN "none"
    ELSE IF body[1].text = "json" THEN body[1].value.type
    ELSE body[1].text

EventDigest(event) ==
    [httpMethod |-> event.httpMethod, path |-> event.path,
     body |-> BodyKind(event.body)]

ResponseDigest(response) ==
    [statusCode |-> response.statusCode,
     error |-> IF response.statusCode >= 400 THEN response.body[1].error ELSE "",
     empty |-> response.body = None]

\* the player router answers event, the generator returning hex if called
PlayerCall(event, hex) ==
    LET h == player_lambda_handler(players, stats, now, hex, event)
    IN /\ players' = h.players
       /\ stats' = h.stats
       /\ last' = [op |-> "player_lambda_handler", id |-> PathPlayerId(event),
                   exc |-> NoException, event |-> EventDigest(event),
                   response |-> ResponseDigest(h.response)]
       /\ UNCHANGED <<now, issued, deleted, idpVars, threadVars>>

\* one call of the player router's lambda_handler
PlayerLambdaHandler ==
    \E event \in PlayerEvents :
      \E hex \in Drawn(player_lambda_handler(players, stats, now, NotDrawn, event)
                           .response.statusCode = 201,
                       TokenHex) :
        PlayerCall(event, hex)

\* the requests of this specification are answered at one reading of the
\* clock; PlayerSpec is where it moves on
PlayerApiNext ==
    \/ PlayerLambdaHandler

PlayerApiSpec == Init /\ [][PlayerApiNext]_vars

(***************************************************************************)
(* The identity provider API behind its router.                            *)
(***************************************************************************)
AuthBody(username, password) ==
    JsonObject([k \in {"username", "password"} |->
                   IF k = "username" THEN username ELSE password])

RefreshBody(token) == JsonObject([k \in {"refresh_token"} |-> token])

IdpEvent(http_method, path, headers, body) ==
    [httpMethod |-> http_method, path |-> path, headers |-> headers, body |-> body]

\* the JSON texts sent to POST /auth/token
AuthBodies ==
    {AuthBody(Some("testuser"), Some("password123")),
     AuthBody(Some("testuser"), Some("wrongpass1")),
     AuthBody(Some("nobody"), Some("password123")),
     AuthBody(Some("testuser"), Some("short")),
     JsonObject(EmptyMap)}

\* the JSON texts sent to POST /auth/refresh
RefreshBodies ==
    {RefreshBody(Some(token)) : token \in PresentedTokens \cup {""}}
    \cup {RefreshBody(None)}

\* event["headers"]: null, no Authorization header, a Bearer one, another one
AuthorizationHeaders ==
    {None, Some(EmptyMap),
     Some([k \in {"Authorization"} |-> <<"Basic ", "tok_Ab3">>])}
    \cup {Some([k \in {"Authorization"} |-> <<"Bearer ", token>>]) :
             token \in PresentedTokens}

\* the requests that match a route of the identity router
IdpRouteEvents ==
    {IdpEvent("POST", <<"auth", "token">>, Some(EmptyMap), body) :
        body \in {Some(JsonText(b)) : b \in AuthBodies} \cup NoBodies \cup BadBodies}
    \cup {IdpEvent("GET", <<"auth", "userinfo">>, headers, None) :
             headers \in AuthorizationHeaders}
    \cup {IdpEvent("POST", <<"auth", "refresh">>, Some(EmptyMap), body) :
             body \in {Some(JsonText(b)) : b \in RefreshBodies}
                      \cup NoBodies \cup BadBodies}

\* requests whose method and path match no route of the identity router
IdpUnmatched ==
    {<<"GET", <<"auth", "token">>>>, <<"POST", <<"auth", "userinfo">>>>,
     <<"DELETE", <<"auth", "refresh">>>>, <<"GET", <<"health">>>>,
     <<"POST", <<"auth">>>>}

IdpUnmatchedEvents ==
    {IdpEvent(mp[1], mp[2], headers, body) :
        mp \in IdpUnmatched,
        headers \in {Some(EmptyMap)},
        body \in {None, Some(InvalidText)}}
    \cup {IdpEvent("GET", <<"health">>, None, None)}

IdpEvents == IdpRouteEvents \cup IdpUnmatchedEvents

\* the response is a success of a route that minted tokens
MintsTokens(event, response) ==
    /\ response.statusCode = 200
    /\ event.httpMethod = "POST"

\* the identity router answers event, the generator returning access_token
\* and refresh if called
IdpCall(event, access_token, refresh) ==
    LET h == idp_lambda_handler(users, tokens, now, access_token, refresh, event)
    IN /\ tokens' = h.tokens
       /\ last' = [op |-> "idp_lambda_handler", id |-> "",
                   exc |-> NoException, event |-> EventDigest(event),
                   response |-> ResponseDigest(h.response)]
       /\ UNCHANGED <<users, now, ticks, minted, playerVars, threadVars>>

\* one call of the identity router's lambda_handler
IdpLambdaHandler ==
    \E event \in IdpEvents :
      \E access_token, refresh \in
            Drawn(MintsTokens(event,
                              idp_lambda_handler(users, tokens, now, NotDrawn,
                                                 NotDrawn, event).response),
                  TokenUrlsafe) :
        IdpCall(event, access_token, refresh)

\* time.time() moves on between requests, past the lifetime of an access
\* token
IdpApiTick ==
    /\ ticks < MaxTicks
    /\ now' = now + AccessTtl + 1
    /\ ticks' = ticks + 1
    /\ UNCHANGED <<users, tokens, minted, last, playerVars, threadVars>>

IdpApiNext ==
    \/ IdpLambdaHandler
    \/ IdpApiTick

IdpApiSpec == Init /\ [][IdpApiNext]_vars

(***************************************************************************)
(* create_player called by several threads of one process, with no lock:   *)
(* the scan for a conflict, the write of the account and the write of its  *)
(* stats record are steps of their own, and the steps of two calls may     *)
(* interleave.                                                             *)
(***************************************************************************)
\* another thread is inside create_player
OtherInFlight(w) == \E v \in Workers \ {w} : requests[v].pc # "idle"

\* the call of w ends: what it raised is recorded, w is outside again
EndRequest(w, id, exc) ==
    /\ requests' = [requests EXCEPT ![w] = Idle]
    /\ last' = [op |-> "create_player", id |-> id, exc |-> exc]

\* for player in self._players.values(): ... raise ConflictException
CreatePlayerScan ==
    \E w \in Workers, username \in Usernames, email \in RawEmails :
        /\ requests[w].pc = "idle"
        /\ overlapped' = (overlapped \/ OtherInFlight(w))
        /\ IF FirstConflict(players, username, email) # 0
           THEN EndRequest(w, "", create_player(players, stats, now, NotDrawn,
                                                username, email, None).exc)
           ELSE /\ requests' = [requests EXCEPT
                                   ![w] = [pc |-> "scanned", username |-> username,
                                           email |-> email, player_id |-> ""]]
                /\ last' = last
        /\ UNCHANGED <<playerVars, idpVars, now>>

\* player_id = ..., player = PlayerAccount(...), self._players[player_id] = player
CreatePlayerStore ==
    \E w \in Workers :
      \E hex \in Drawn(IsValidEmail(requests[w].email), TokenHex) :
        LET r == requests[w]
            player_id == PlayerId(hex)
        IN /\ r.pc = "scanned"
           /\ IF ~IsValidEmail(r.email)
              THEN /\ EndRequest(w, "", PydanticValidationError(<<"email">>))
                   /\ players' = players
              ELSE /\ players' = DictSet(players, player_id,
                                         PlayerAccount(player_id, r.username, r.email,
                                                       DisplayNameOr(None, r.username),
                                                       PlayerStatusACTIVE, now))
                   /\ requests' = [requests EXCEPT
                                      ![w] = [r EXCEPT !.pc = "stored",
                                                       !.player_id = player_id]]
                   /\ last' = last
           /\ UNCHANGED <<stats, issued, deleted, idpVars, now, overlapped>>

\* self._stats[player_id] = stats; return player
CreatePlayerStoreStats ==
    \E w \in Workers :
        LET player_id == requests[w].player_id
        IN /\ requests[w].pc = "stored"
           /\ stats' = DictSet(stats, player_id, PlayerStats(player_id))
           /\ EndRequest(w, player_id, NoException)
           /\ issued' = issued \cup {player_id}
           /\ deleted' = deleted \ {player_id}
           /\ UNCHANGED <<players, idpVars, now, overlapped>>

ConcurrentNext ==
    \/ CreatePlayerScan
    \/ CreatePlayerStore
    \/ CreatePlayerStoreStats

ConcurrentSpec == Init /\ [][ConcurrentNext]_vars

(***************************************************************************)
(* Properties of PlayerAccountService, checked under PlayerSpec.           *)
(***************************************************************************)
\* the stored accounts other than the one at position i
Others(i) == DOMAIN players \ {i}

\* C1: after any sequence of create_player, update_player and delete_player
\* calls, no two distinct stored accounts have the same username and no two
\* have the same email.
C1_UniqueUsernameAndEmail ==
    \A i \in DOMAIN players : \A j \in Others(i) :
        /\ players[i].v.username # players[j].v.username
        /\ players[i].v.email # players[j].v.email

\* C2: between operations the stats store and the player store hold the same
\* player_ids, so get_player_stats on a stored player never raises.
C2_StatsKeysArePlayerKeys ==
    /\ DictKeys(stats) = DictKeys(players)
    /\ \A player_id \in DictKeys(players) :
           ~Raised(get_player_stats(players, stats, player_id))

\* a delete succeeded and left another account, with its stats, behind
C2_Witness ==
    /\ last.op = "delete_player"
    /\ last.exc.type = "none"
    /\ Len(players) = 1
    /\ Len(stats) = 1

\* POST /players with the JSON object {username, email, display_name}
CreateEvent(username, email, display_name) ==
    [httpMethod |-> "POST",
     path |-> <<"players">>,
     pathParameters |-> None,
     body |-> Some(JsonText(JsonObject(
                 [k \in {"username", "email", "display_name"} |->
                     CASE k = "username" -> Some(username)
                       [] k = "email" -> Some(email)
                       [] k = "display_name" -> display_name])))]

\* method /players/<player_id><tail> with the path parameter player_id
ByIdEvent(method, player_id, tail) ==
    [httpMethod |-> method,
     path |-> <<"players", player_id>> \o tail,
     pathParameters |-> Some([k \in {"player_id"} |-> player_id]),
     body |-> None]

\* through the router: POST /players with the username or the email of a
\* stored player is answered 409 and adds no account
C3_DuplicateCreateIs409 ==
    \A hex \in TokenHex, username \in Usernames,
       email \in {e \in RawEmails : IsValidEmail(e)},
       display_name \in {None, Some("Neo")} :
        LET h == player_lambda_handler(players, stats, now, hex,
                                       CreateEvent(username, email, display_name))
        IN (\/ \E i \in DOMAIN players : players[i].v.username = username
            \/ \E i \in DOMAIN players : players[i].v.email = email)
           => /\ h.response.statusCode = 409
              /\ h.players = players
              /\ h.stats = stats

\* C3: create_player with the username of a stored player (whatever the
\* email) or with the email of a stored player (whatever the username)
\* raises ConflictException, status 409 through the router, and adds no
\* account.
C3_DuplicateCreateIsConflict ==
    /\ C3_DuplicateCreateIs409
    /\ \A hex \in TokenHex, username \in Usernames, email \in RawEmails,
       display_name \in DisplayNames :
        LET o == create_player(players, stats, now, hex, username, email,
                               display_name)
        IN (\/ \E i \in DOMAIN players : players[i].v.username = username
            \/ \E i \in DOMAIN players : players[i].v.email = email)
           => /\ o.exc.type = "ConflictException"
              /\ o.exc.status_code = 409
              /\ o.players = players
              /\ o.stats = stats

\* a create was refused as a conflict and the stored account is still alone
C3_Witness ==
    /\ last.op = "create_player"
    /\ last.exc.type = "ConflictException"
    /\ Len(players) = 1

\* "plr_" followed by what secrets.token_hex(8) returned
IsPlayerIdFormat(player_id) == \E hex \in TokenHex : player_id = "plr_" \o hex

\* C4: the player_id a successful create_player returns has the form
\* plr_<hex> and differs from every player_id an earlier successful create
\* returned; a create never overwrites a stored account.
C4_CreateReturnsFreshId ==
    [][(CreatePlayer /\ last'.exc.type = "none")
          => /\ IsPlayerIdFormat(last'.id)
             /\ last'.id \notin issued
             /\ ~DictHas(players, last'.id)]_vars

\* get_player, get_player_stats and delete_player all raise NotFound for id,
\* and the router answers the three requests 404
AllNotFound(player_id) ==
    /\ get_player(players, stats, player_id).exc.type = "NotFoundException"
    /\ get_player_stats(players, stats, player_id).exc.type = "NotFoundException"
    /\ delete_player(players, stats, player_id).exc.type = "NotFoundException"
    /\ \A hex \in TokenHex :
         \A event \in {ByIdEvent("GET", player_id, <<>>),
                       ByIdEvent("GET", player_id, <<"stats">>),
                       ByIdEvent("DELETE", player_id, <<>>)} :
             player_lambda_handler(players, stats, now, hex, event)
                 .response.statusCode = 404

\* C5: after a successful delete_player(id), get_player(id),
\* get_player_stats(id) and a second delete_player(id) raise NotFound (404
\* through the router), until a later create returns the same id.
C5_DeletedIsNotFound == \A player_id \in deleted : AllNotFound(player_id)

\* a get on a deleted player was refused
C5_Witness ==
    /\ last.op = "get_player"
    /\ last.id \in deleted
    /\ last.exc.type = "NotFoundException"

\* C6: a successful update_player(id, patch) sets, among display_name, email
\* and status of player id, the fields the patch holds to the patch's values
\* and leaves the others; every other account and every stats record is as
\* it was.
C6_UpdateChangesOnlyPatchedFields ==
    \A player_id \in PlayerIds, req \in UpdatePlayerRequests :
        LET o == update_player(players, stats, now, player_id, req)
        IN ~Raised(o) =>
            LET before == DictGet(players, player_id)
                after == DictGet(o.players, player_id)
            IN /\ after.display_name =
                      IF req.display_name = None THEN before.display_name
                      ELSE req.display_name[1]
               /\ after.email =
                      IF req.email = None THEN before.email ELSE req.email[1]
               /\ after.status =
                      IF req.status = None THEN before.status ELSE req.status[1]
               /\ Len(o.players) = Len(players)
               /\ \A i \in DOMAIN players :
                      /\ o.players[i].k = players[i].k
                      /\ players[i].k # player_id => o.players[i] = players[i]
               /\ o.stats = stats

\* an update set the status of one of two accounts and left its display_name
C6_Witness ==
    /\ last.op = "update_player"
    /\ last.exc.type = "none"
    /\ Len(players) = 2
    /\ DictGet(players, last.id).status = PlayerStatusSUSPENDED
    /\ DictGet(players, last.id).display_name = DictGet(players, last.id).username

\* C7: update_player(id, patch) with an email in the patch raises Conflict
\* exactly when a stored player with another id holds that email, and then
\* leaves player id as it was; a patch with player id's own email succeeds.
C7_EmailConflictOnlyWithOthers ==
    \A player_id \in DictKeys(players), req \in UpdatePlayerRequests :
        LET o == update_player(players, stats, now, player_id, req)
            held == \E i \in DOMAIN players :
                        /\ players[i].k # player_id
                        /\ players[i].v.email = req.email[1]
        IN req.email # None =>
            /\ (o.exc.type = "ConflictException") <=> held
            /\ held => (o.players = players /\ o.stats = stats)
            /\ req.email[1] = DictGet(players, player_id).email => ~Raised(o)

(***************************************************************************)
(* Properties of IDPService, checked under IdpSpec.                        *)
(***************************************************************************)
\* POST /auth/token with the JSON object {username, password}
TokenEvent(username, password) ==
    [httpMethod |-> "POST",
     path |-> <<"auth", "token">>,
     headers |-> Some(EmptyMap),
     body |-> Some(JsonText(JsonObject(
                 [k \in {"username", "password"} |->
                     IF k = "username" THEN Some(username) ELSE Some(password)])))]

\* C8: authenticate with a known username and a wrong password, and with an
\* unknown username, end the same way: AuthenticationException, the same
\* message, status 401, the token store as it was; the router's two
\* responses are the same.
C8_WrongPasswordLikeUnknownUser ==
    \A known \in DOMAIN users, unknown \in LoginNames \ DOMAIN users,
       wrong \in Passwords, any \in Passwords,
       access_token \in {NotDrawn}, refresh \in {NotDrawn} :
        LET a == authenticate(users, tokens, now, access_token, refresh,
                              known, wrong)
            b == authenticate(users, tokens, now, access_token, refresh,
                              unknown, any)
            ha == idp_lambda_handler(users, tokens, now, access_token, refresh,
                                     TokenEvent(known, wrong))
            hb == idp_lambda_handler(users, tokens, now, access_token, refresh,
                                     TokenEvent(unknown, any))
        IN wrong # users[known].password
           => /\ a.exc.type = "AuthenticationException"
              /\ a.exc.status_code = 401
              /\ a = b
              /\ a.tokens = tokens
              /\ ha.response.statusCode = 401
              /\ ha = hb
              /\ ha.tokens = tokens

\* an unknown user was refused while tokens of a known one are stored
C8_Witness ==
    /\ last.op = "authenticate"
    /\ last.id \notin DOMAIN users
    /\ last.exc.type = "AuthenticationException"
    /\ tokens # EmptyMap

\* no token is accepted by get_user_info later than 3600 s, or by refresh
\* later than 86400 s, after it was minted
AcceptedWithinLifetime ==
    \A t \in DOMAIN tokens :
        /\ ~Raised(get_user_info(users, tokens, now, t))
              => now <= minted[t] + 3600
        /\ \A access_token \in TokenUrlsafe :
              ~Raised(refresh_token(users, tokens, now, access_token, t))
                  => now <= minted[t] + 86400

\* C9: a successful authenticate at time t adds exactly two records, an
\* access token expiring at t+3600 and a refresh token expiring at t+86400,
\* both of that user, and returns both strings with expires_in = 3600; no
\* token is accepted by get_user_info later than 3600 s, or by refresh later
\* than 86400 s, after it was minted.
C9_AuthenticateAddsTwoRecords ==
    [][\A username \in LoginNames, password \in Passwords,
          access_token \in TokenUrlsafe, refresh \in TokenUrlsafe :
           LET o == authenticate(users, tokens, now, access_token, refresh,
                                 username, password)
           IN (/\ Authenticate
               /\ ~Raised(o)
               /\ tokens' = o.tokens
               /\ minted' = MapSet(MapSet(minted, access_token, now), refresh, now))
              => /\ Cardinality(DOMAIN tokens') = Cardinality(DOMAIN tokens) + 2
                 /\ \A t \in DOMAIN tokens : tokens'[t] = tokens[t]
                 /\ tokens'[access_token] =
                        TokenData(users[username].user_id, username, "access",
                                  now + 3600)
                 /\ tokens'[refresh] =
                        TokenData(users[username].user_id, username, "refresh",
                                  now + 86400)
                 /\ o.ret[1].access_token = access_token
                 /\ o.ret[1].refresh_token = Some(refresh)
                 /\ o.ret[1].expires_in = 3600
                 /\ AcceptedWithinLifetime']_vars

\* C10: get_user_info raises AuthenticationException whenever the token's
\* stored expiry is less than or equal to the current time, and so does
\* refresh for a refresh token.
C10_ExpiredAtExpiryInstant ==
    \A t \in DOMAIN tokens : \A access_token \in TokenUrlsafe :
        tokens[t].expires_at <= now =>
            /\ tokens[t].type = "access" =>
                   get_user_info(users, tokens, now, t).exc.type
                       = "AuthenticationException"
            /\ tokens[t].type = "refresh" =>
                   refresh_token(users, tokens, now, access_token, t).exc.type
                       = "AuthenticationException"

\* C11: get_user_info succeeds only for tokens recorded with kind access and
\* refresh only for tokens recorded with kind refresh; a refresh token
\* presented to get_user_info, or an access token presented to refresh,
\* raises AuthenticationException('Invalid token type') and leaves the token
\* store as it was.
C11_WrongKindIsRefused ==
    \A token \in PresentedTokens, access_token \in TokenUrlsafe :
        LET g == get_user_info(users, tokens, now, token)
            r == refresh_token(users, tokens, now, access_token, token)
        IN /\ ~Raised(g) => (MapHas(tokens, token) /\ tokens[token].type = "access")
           /\ ~Raised(r) => (MapHas(tokens, token) /\ tokens[token].type = "refresh")
           /\ (MapHas(tokens, token) /\ tokens[token].type = "refresh")
                 => /\ g.exc = AuthenticationException("Invalid token type")
                    /\ g.tokens = tokens
           /\ (MapHas(tokens, token) /\ tokens[token].type = "access")
                 => /\ r.exc = AuthenticationException("Invalid token type")
                    /\ r.tokens = tokens

\* a stored refresh token was presented to get_user_info and refused
C11_Witness ==
    /\ last.op = "get_user_info"
    /\ MapHas(tokens, last.id)
    /\ tokens[last.id].type = "refresh"
    /\ last.exc = AuthenticationException("Invalid token type")

\* C12: every token string minted by authenticate or refresh differs from
\* every token string already in the token store (the refresh token of an
\* authenticate also from the access token minted just before it); the
\* access token a refresh returns is bound to the user id and username of
\* the presented refresh token.
C12_MintedTokensAreFresh ==
    [][/\ \A username \in LoginNames, password \in Passwords,
             access_token \in TokenUrlsafe, refresh \in TokenUrlsafe :
              LET o == authenticate(users, tokens, now, access_token, refresh,
                                    username, password)
              IN (/\ Authenticate
                  /\ ~Raised(o)
                  /\ last'.id = username
                  /\ tokens' = o.tokens
                  /\ minted' = MapSet(MapSet(minted, access_token, now), refresh, now))
                 => /\ ~MapHas(tokens, access_token)
                    /\ ~MapHas(tokens, refresh)
                    /\ access_token # refresh
       /\ \A token \in PresentedTokens, access_token \in TokenUrlsafe :
              LET o == refresh_token(users, tokens, now, access_token, token)
              IN (/\ RefreshToken
                  /\ ~Raised(o)
                  /\ last'.id = token
                  /\ tokens' = o.tokens
                  /\ minted' = MapSet(minted, access_token, now))
                 => /\ ~MapHas(tokens, access_token)
                    /\ o.ret[1].access_token = access_token
                    /\ tokens'[access_token].type = "access"
                    /\ tokens'[access_token].user_id = tokens[token].user_id
                    /\ tokens'[access_token].username = tokens[token].username]_vars

\* C13: the token store is append-only: every step leaves every stored
\* record in place with its kind, owner and expiry; a successful refresh
\* leaves the presented refresh token's record as it was, returns no new
\* refresh token, and the same refresh token refreshes again at once.
C13_TokenStoreAppendOnly ==
    [][/\ \A t \in DOMAIN tokens : MapHas(tokens', t) /\ tokens'[t] = tokens[t]
       /\ \A token \in PresentedTokens, access_token \in TokenUrlsafe :
              LET o == refresh_token(users, tokens, now, access_token, token)
              IN ~Raised(o)
                 => /\ o.tokens[token] = tokens[token]
                    /\ o.ret[1].refresh_token = None
                    /\ \A again \in TokenUrlsafe :
                           ~Raised(refresh_token(users, o.tokens, now, again, token))]_vars

(***************************************************************************)
(* Properties of the two routers, checked under PlayerApiSpec and          *)
(* IdpApiSpec.                                                             *)
(***************************************************************************)
\* the token store after testuser logged in at the current time, and the
\* token stores the identity router is asked on: the current one and that
TokensAfterLogin ==
    authenticate(users, EmptyMap, now, "tok_Ab3", "tok_Cd5", "testuser",
                 "password123").tokens

IdpStores == {tokens, TokensAfterLogin}

\* the 404 of a router for a method and a path that match no route
IsEndpointNotFound(response, event) ==
    /\ response.statusCode = 404
    /\ response.body[1].error = "NOT_FOUND"
    /\ response.body[1].message =
           <<"Endpoint not found: ", event.httpMethod, " ", FormatPath(event.path)>>

\* C14: for both routers, a request whose method and path match no route is
\* answered 404 with error NOT_FOUND and a message naming the method and
\* the path, whatever its body, headers and path parameters; no store is
\* changed.
C14_UnmatchedIs404 ==
    [][/\ \A event \in PlayerUnmatchedEvents :
              PlayerCall(event, NotDrawn)
                  => /\ IsEndpointNotFound(
                            player_lambda_handler(players, stats, now, NotDrawn,
                                                  event).response, event)
                     /\ players' = players
                     /\ stats' = stats
       /\ \A event \in IdpUnmatchedEvents :
              IdpCall(event, NotDrawn, NotDrawn)
                  => /\ IsEndpointNotFound(
                            idp_lambda_handler(users, tokens, now, NotDrawn,
                                               NotDrawn, event).response, event)
                     /\ tokens' = tokens]_vars

\* the kinds of the taxonomy with their fixed status codes
TaxonomyKinds ==
    {<<"ValidationException", 400>>, <<"AuthenticationException", 401>>,
     <<"NotFoundException", 404>>, <<"ConflictException", 409>>}

\* the response carries the status code and the message of exc, which is of
\* a kind of the taxonomy, and an error field that no other kind is answered
\* with
AnswersTaxonomyError(response, exc, clock) ==
    /\ <<exc.type, exc.status_code>> \in TaxonomyKinds
    /\ response.statusCode = exc.status_code
    /\ response.body[1].message = exc.message
    /\ \A other \in TaxonomyKinds :
           other[1] # exc.type
               => HandleException(PSNEmulatorException(other[1], exc.message, other[2]),
                                  clock).body[1].error
                      # response.body[1].error

\* C15: when an operation of a domain service raises an error of the
\* taxonomy, the router's response has that error's status code (400, 401,
\* 404, 409), its message, and an error field that identifies its kind.
C15_TaxonomyErrorKeepsCodeAndKind ==
    [][/\ \A player_id \in PlayerIds :
              LET event == ByIdEvent("GET", player_id, <<>>)
                  o == get_player(players, stats, player_id)
              IN (PlayerCall(event, NotDrawn) /\ Raised(o))
                     => AnswersTaxonomyError(
                            player_lambda_handler(players, stats, now, NotDrawn,
                                                  event).response, o.exc, now)
       /\ \A username \in Usernames, email \in Emails :
              LET event == CreateEvent(username, email, None)
                  o == create_player(players, stats, now, NotDrawn, username,
                                     email, None)
              IN (PlayerCall(event, NotDrawn) /\ Raised(o))
                     => AnswersTaxonomyError(
                            player_lambda_handler(players, stats, now, NotDrawn,
                                                  event).response, o.exc, now)
       /\ \A username \in LoginNames, password \in Passwords :
              LET event == TokenEvent(username, password)
                  o == authenticate(users, tokens, now, NotDrawn, NotDrawn,
                                    username, password)
              IN (IdpCall(event, NotDrawn, NotDrawn) /\ Raised(o))
                     => AnswersTaxonomyError(
                            idp_lambda_handler(users, tokens, now, NotDrawn,
                                               NotDrawn, event).response,
                            o.exc, now)]_vars

\* exceptions that are no PSNEmulatorException, with their texts
UnexpectedExceptions ==
    {[type |-> type, message |-> message, status_code |-> 0] :
        type \in {"json.JSONDecodeError", "TypeError", "AttributeError"},
        message \in {"Expecting value: line 1 column 1 (char 0)",
                     "'NoneType' object has no attribute 'get'"}}

\* the body of an error response without its timestamp
WithoutTimestamp(body) ==
    [error |-> body.error, message |-> body.message, details |-> body.details]

IsInternalError(response) ==
    /\ response.statusCode = 500
    /\ response.headers = ResponseHeaders
    /\ WithoutTimestamp(response.body[1]) =
           [error |-> "INTERNAL_ERROR", message |-> "An unexpected error occurred",
            details |-> None]

\* the handling of event raises an exception outside the taxonomy: the body
\* is not JSON, is not a JSON object where one is unpacked or read, or the
\* headers are null where they are read
PlayerRaisesUnexpected(event) ==
    \/ Raised(PlayerBody(event))
    \/ /\ PlayerBody(event).value.type # "object"
       /\ \/ event.httpMethod = "POST" /\ EndsWith(event.path, <<"players">>)
          \/ /\ event.httpMethod = "PUT"
             /\ ContainsSegment(event.path, "players")
             /\ PathPlayerId(event) # ""

IdpRaisesUnexpected(event) ==
    \/ Raised(IdpBody(event))
    \/ /\ IdpBody(event).value.type # "object"
       /\ event.httpMethod = "POST"
       /\ \/ EndsWith(event.path, <<"auth", "token">>)
          \/ EndsWith(event.path, <<"auth", "refresh">>)
    \/ /\ event.httpMethod = "GET"
       /\ EndsWith(event.path, <<"auth", "userinfo">>)
       /\ event.headers = None

\* C16: an exception raised while a request is handled that is no taxonomy
\* error is answered 500, INTERNAL_ERROR, 'An unexpected error occurred';
\* apart from the timestamp the body is the same for any two such
\* exceptions, whatever their type and text.
C16_UnexpectedIsGeneric500 ==
    /\ \A exc \in UnexpectedExceptions, clock \in 0..MaxClock :
           IsInternalError(HandleException(exc, clock))
    /\ \A a \in UnexpectedExceptions, b \in UnexpectedExceptions :
           WithoutTimestamp(HandleException(a, 0).body[1])
               = WithoutTimestamp(HandleException(b, MaxClock).body[1])
    /\ \A event \in IdpEvents, tk \in IdpStores :
           IdpRaisesUnexpected(event)
               => LET h == idp_lambda_handler(users, tk, now, NotDrawn,
                                              NotDrawn, event)
                  IN IsInternalError(h.response) /\ h.tokens = tk
    /\ \A event \in PlayerEvents :
           PlayerRaisesUnexpected(event)
               => LET h == player_lambda_handler(players, stats, now, NotDrawn,
                                                 event)
                  IN /\ IsInternalError(h.response)
                     /\ h.players = players
                     /\ h.stats = stats

\* a refresh request whose body is the JSON text null was answered 500 while
\* tokens are stored
C16_Witness ==
    /\ last.op = "idp_lambda_handler"
    /\ last.event.path = <<"auth", "refresh">>
    /\ last.event.body = "null"
    /\ last.response.statusCode = 500
    /\ last.response.error = "INTERNAL_ERROR"
    /\ tokens # EmptyMap

\* the event with the body '{}'
WithEmptyObject(event) ==
    [event EXCEPT !.body = Some(JsonText(JsonObject(EmptyMap)))]

IsValidationError(response) ==
    /\ response.statusCode = 400
    /\ response.body[1].error = "VALIDATION_ERROR"

\* C17: a request whose body is missing, null or the empty string is handled
\* exactly as the same request with the body '{}': POST /players and POST
\* /auth/token without a body are answered 400 as validation errors, GET and
\* DELETE routes without a body are answered as with '{}'.
C17_MissingBodyIsEmptyObject ==
    /\ \A event \in {e \in PlayerEvents : e.body \in NoBodies},
          hex \in TokenHex \cup {NotDrawn} :
           LET h == player_lambda_handler(players, stats, now, hex, event)
           IN /\ h = player_lambda_handler(players, stats, now, hex,
                                           WithEmptyObject(event))
              /\ (event.httpMethod = "POST" /\ event.path = <<"players">>)
                     => IsValidationError(h.response)
              /\ (event.httpMethod \in {"GET", "DELETE"}
                    /\ event \in PlayerRouteEvents)
                     => h.response.statusCode \in {200, 204, 400, 404}
    /\ \A event \in {e \in IdpEvents : e.body \in NoBodies},
          access_token \in TokenUrlsafe \cup {NotDrawn}, tk \in IdpStores :
           LET h == idp_lambda_handler(users, tk, now, access_token,
                                       NotDrawn, event)
           IN /\ h = idp_lambda_handler(users, tk, now, access_token,
                                        NotDrawn, WithEmptyObject(event))
              /\ (event.httpMethod = "POST" /\ event.path = <<"auth", "token">>)
                     => IsValidationError(h.response)

\* POST /players without a body was answered 400 while a player is stored
C17_Witness ==
    /\ last.op = "player_lambda_handler"
    /\ last.event = [httpMethod |-> "POST", path |-> <<"players">>, body |-> "empty"]
    /\ last.response.statusCode = 400
    /\ last.response.error = "VALIDATION_ERROR"
    /\ Len(players) = 1

\* the status code of a success of the player router, by the method
PlayerSuccessCode(http_method) ==
    CASE http_method = "POST" -> 201
      [] http_method = "DELETE" -> 204
      [] OTHER -> 200

\* C18: the player router answers a successful create 201, a successful
\* delete 204 with an empty body, every other success 200; the identity
\* router answers every success 200; every response of both carries the
\* headers Content-Type: application/json and Access-Control-Allow-Origin: *.
C18_SuccessCodesAndHeaders ==
    /\ \A event \in PlayerEvents, hex \in TokenHex :
           LET response == player_lambda_handler(players, stats, now, hex,
                                                 event).response
           IN /\ response.headers =
                     [ContentType |-> "application/json",
                      AccessControlAllowOrigin |-> "*"]
              /\ response.statusCode < 400
                     => /\ response.statusCode = PlayerSuccessCode(event.httpMethod)
                        /\ (response.body = None) <=> (event.httpMethod = "DELETE")
    /\ \A player_id \in DictKeys(players), hex \in TokenHex :
           /\ player_lambda_handler(players, stats, now, hex,
                                    ByIdEvent("DELETE", player_id, <<>>))
                  .response.statusCode = 204
           /\ \A tail \in {<<>>, <<"stats">>} :
                  player_lambda_handler(players, stats, now, hex,
                                        ByIdEvent("GET", player_id, tail))
                      .response.statusCode = 200
    /\ \A username \in Usernames, email \in Emails, hex \in TokenHex :
           ~Raised(create_player(players, stats, now, hex, username, email, None))
               => player_lambda_handler(players, stats, now, hex,
                                        CreateEvent(username, email, None))
                      .response.statusCode = 201
    /\ \A event \in IdpEvents, access_token \in TokenUrlsafe,
          refresh \in TokenUrlsafe, tk \in IdpStores :
           LET response == idp_lambda_handler(users, tk, now, access_token,
                                              refresh, event).response
           IN /\ response.headers =
                     [ContentType |-> "application/json",
                      AccessControlAllowOrigin |-> "*"]
              /\ response.statusCode < 400 => response.statusCode = 200
    /\ \A access_token \in TokenUrlsafe, refresh \in TokenUrlsafe :
           /\ idp_lambda_handler(users, tokens, now, access_token, refresh,
                                 TokenEvent("testuser", "password123"))
                  .response.statusCode = 200
           /\ idp_lambda_handler(
                  users, TokensAfterLogin, now, access_token, refresh,
                  IdpEvent("GET", <<"auth", "userinfo">>,
                           Some([k \in {"Authorization"} |-> <<"Bearer ", "tok_Ab3">>]),
                           None)).response.statusCode = 200
           /\ idp_lambda_handler(
                  users, TokensAfterLogin, now, access_token, refresh,
                  IdpEvent("POST", <<"auth", "refresh">>, Some(EmptyMap),
                           Some(JsonText(RefreshBody(Some("tok_Cd5"))))))
                  .response.statusCode = 200

\* a DELETE was answered 204 with an empty body and left a player behind
C18_Witness ==
    /\ last.op = "player_lambda_handler"
    /\ last.event.httpMethod = "DELETE"
    /\ last.response.statusCode = 204
    /\ last.response.empty
    /\ Len(players) = 1

(***************************************************************************)
(* Further properties of PlayerAccountService, checked under PlayerSpec.   *)
(***************************************************************************)
\* C19: right after a successful create_player returning account a,
\* get_player(a.player_id) returns an account equal to a in every field;
\* a.display_name is the given display_name, or the username when none was
\* given, and a.status is active.
C19_CreateThenGetRoundTrip ==
    [][\A username \in Usernames, email \in RawEmails,
          display_name \in DisplayNames, hex \in TokenHex :
           LET o == create_player(players, stats, now, hex, username, email,
                                  display_name)
           IN (/\ CreatePlayer
               /\ ~Raised(o)
               /\ players' = o.players
               /\ stats' = o.stats)
              => LET a == o.ret[1]
                     g == get_player(players', stats', a.player_id)
                 IN /\ ~Raised(g)
                    /\ g.ret[1] = a
                    /\ a.display_name =
                           IF display_name = None THEN username
                           ELSE display_name[1]
                    /\ a.status = PlayerStatusACTIVE]_vars

\* C20: create_player checks the username first: whenever some stored player
\* holds the requested username, the ConflictException raised is the one of
\* the username, whoever holds the requested email and in whatever order the
\* players were inserted.
C20_UsernameConflictFirst ==
    \A username \in Usernames, email \in RawEmails, display_name \in DisplayNames,
       hex \in TokenHex :
        (\E i \in DOMAIN players : players[i].v.username = username)
            => create_player(players, stats, now, hex, username, email,
                             display_name).exc
                   = ConflictException(<<"Username '", username, "' already exists">>)

\* C21: every successful update_player(id, patch), the empty patch included,
\* sets updated_at of player id to a value strictly greater than the one it
\* had before the call; updated_at of a stored player never decreases,
\* whatever the operation.
C21_UpdatedAtStrictlyIncreases ==
    [][/\ (UpdatePlayer /\ last'.exc.type = "none")
              => DictGet(players', last'.id).updated_at
                     > DictGet(players, last'.id).updated_at
       /\ \A player_id \in DictKeys(players) \cap DictKeys(players') :
              DictGet(players', player_id).updated_at
                  >= DictGet(players, player_id).updated_at]_vars

(***************************************************************************)
(* Further properties of the two routers, checked under PlayerApiSpec and  *)
(* IdpApiSpec.                                                             *)
(***************************************************************************)
\* GET paths that contain "/players/" and end with "/stats", and the GET
\* paths "/players/{id}" of the player ids
StatsPaths ==
    {<<"players", player_id, "stats">> : player_id \in PlayerIds}
    \cup {<<"v1", "players", "plr_00000000000000a1", "stats">>,
          <<"players", "stats">>,
          <<"players", "plr_00000000000000a1", "games", "stats">>}

PlayerPaths == {<<"players", player_id>> : player_id \in PlayerIds}

\* C22: the player router sends every method and path to one route by a
\* fixed precedence: a GET whose path contains "/players/" and ends with
\* "/stats" always goes to get-stats and never to get-player, and a GET of
\* "/players/{id}" for a player id goes to get-player and never to list.
C22_StatsBeforePlayerBeforeList ==
    /\ \A path \in StatsPaths, path_params \in PathParams("plr_00000000000000b2"),
          hex \in TokenHex :
           LET event == PlayerEvent("GET", path, path_params, None)
               player_id == PathPlayerId(event)
               h == player_lambda_handler(players, stats, now, hex, event)
           IN /\ ContainsSegment(path, "players") /\ EndsWith(path, <<"stats">>)
              /\ PlayerRoute("GET", path) = "get_player_stats"
              /\ player_id # ""
                     => h = handle_get_player_stats(players, stats, now, player_id)
              /\ DictHas(players, player_id)
                     => /\ h.response.body = Some(DictGet(stats, player_id))
                        /\ h.response # handle_get_player(players, stats, now,
                                                          player_id).response
    /\ \A path \in PlayerPaths, path_params \in PathParams("plr_00000000000000b2"),
          hex \in TokenHex :
           LET event == PlayerEvent("GET", path, path_params, None)
               player_id == PathPlayerId(event)
               h == player_lambda_handler(players, stats, now, hex, event)
           IN /\ PlayerRoute("GET", path) = "get_player"
              /\ player_id # ""
                     => h = handle_get_player(players, stats, now, player_id)
              /\ DictHas(players, player_id)
                     => /\ h.response.body = Some(DictGet(players, player_id))
                        /\ h.response # handle_list_players(players, stats, now)
                                            .response

\* GET /players/{id}/stats of a stored player was answered 200
C22_Witness ==
    /\ last.op = "player_lambda_handler"
    /\ last.event.httpMethod = "GET"
    /\ Len(last.event.path) = 3
    /\ last.event.path[3] = "stats"
    /\ last.response.statusCode = 200
    /\ DictHas(players, last.id)

\* a display_name of 51 characters
LongDisplayName == "NNNNNNNNNNNNNNNNNNNNNNNNNNNNNNNNNNNNNNNNNNNNNNNNNNN"

\* POST /players with a body that violates a field constraint of
\* CreatePlayerRequest
InvalidCreateEvents ==
    {PlayerEvent("POST", <<"players">>, None, Some(JsonText(body))) :
        body \in {CreateBody(Some("al"), Some([local |-> "a", domain |-> "x.com"]), None),
                  CreateBody(Some("alice"), Some([local |-> "bad", domain |-> ""]), None),
                  CreateBody(Some("alice"), Some([local |-> "a", domain |-> "x.com"]),
                             Some(LongDisplayName)),
                  CreateBody(None, Some([local |-> "a", domain |-> "x.com"]), None),
                  CreateBody(Some("alice"), None, None)}}

\* POST /auth/token with a body that violates a field constraint of
\* AuthenticationRequest
InvalidAuthEvents ==
    {IdpEvent("POST", <<"auth", "token">>, Some(EmptyMap), Some(JsonText(body))) :
        body \in {AuthBody(Some("te"), Some("password123")),
                  AuthBody(Some("testuser"), Some("short")),
                  AuthBody(None, Some("password123")),
                  AuthBody(Some("testuser"), None)}}

\* GET /auth/userinfo without an Authorization header that starts with
\* "Bearer ": no headers, no such header, a header of another scheme
NoBearerEvents ==
    {IdpEvent("GET", <<"auth", "userinfo">>, headers, None) :
        headers \in {None, Some(EmptyMap),
                     Some([k \in {"Authorization"} |-> <<"Basic ", "tok_Ab3">>])}}

\* POST /auth/refresh without a non-empty refresh_token
NoRefreshTokenEvents ==
    {IdpEvent("POST", <<"auth", "refresh">>, Some(EmptyMap), body) :
        body \in {None, Some(JsonText(JsonObject(EmptyMap))),
                  Some(JsonText(RefreshBody(None))),
                  Some(JsonText(RefreshBody(Some(""))))}}

\* C23: a request rejected by validation never reaches the domain service,
\* changes no store and is answered 400 with error VALIDATION_ERROR: a
\* create or authenticate body that violates a field constraint, a GET
\* /auth/userinfo without an Authorization header starting with "Bearer ",
\* a POST /auth/refresh without a non-empty refresh_token.
C23_RejectedByValidationIs400 ==
    [][/\ \A event \in InvalidCreateEvents, hex \in TokenHex :
              LET h == player_lambda_handler(players, stats, now, hex, event)
              IN /\ IsValidationError(h.response)
                 /\ h.players = players
                 /\ h.stats = stats
       /\ \A event \in InvalidAuthEvents \cup NoRefreshTokenEvents,
             access_token \in TokenUrlsafe, refresh \in TokenUrlsafe :
              LET h == idp_lambda_handler(users, tokens, now, access_token,
                                          refresh, event)
              IN /\ IsValidationError(h.response)
                 /\ h.tokens = tokens
       /\ \A event \in NoBearerEvents :
              IdpCall(event, NotDrawn, NotDrawn)
                  => /\ IsValidationError(
                            idp_lambda_handler(users, tokens, now, NotDrawn,
                                               NotDrawn, event).response)
                     /\ tokens' = tokens]_vars

(***************************************************************************)
(* Properties of concurrent create_player calls, checked under             *)
(* ConcurrentSpec.                                                         *)
(***************************************************************************)
\* two stored accounts have the same username
SharedUsername ==
    \E i \in DOMAIN players : \E j \in DOMAIN players \ {i} :
        players[i].v.username = players[j].v.username

\* C24: the stores are safe only when requests run one at a time: as long
\* as every create_player call ran to its end before the next one began, no
\* two stored accounts share a username; two calls with the same username
\* whose scans and inserts interleave can both pass the scan and both be
\* inserted.
C24_SerialCreatesShareNoUsername == ~overlapped => ~SharedUsername

\* two interleaved calls have both returned and left two accounts with one
\* username, each with its stats record
C24_Witness ==
    /\ overlapped
    /\ \A w \in Workers : requests[w].pc = "idle"
    /\ last.exc.type = "none"
    /\ Len(players) = 2
    /\ Len(stats) = 2
    /\ SharedUsername

(***************************************************************************)
(* Properties of the routers as the single catch point, checked under      *)
(* PlayerApiSpec.                                                          *)
(***************************************************************************)
\* the status codes of the responses of the two routers
StatusCodes == {200, 201, 204, 400, 401, 404, 409, 500}

\* a response of API Gateway: a status code, the headers, and a body that is
\* a result or an error with its kind and message
IsEnvelope(response) ==
    /\ DOMAIN response = {"statusCode", "headers", "body"}
    /\ response.statusCode \in StatusCodes
    /\ response.headers = ResponseHeaders
    /\ response.statusCode >= 400
           => /\ response.body # None
              /\ response.body[1].error \in {"VALIDATION_ERROR", "SERVICE_ERROR",
                                             "INTERNAL_ERROR", "NOT_FOUND",
                                             "BAD_REQUEST"}

IdpClocks == {now, now + AccessTtl + 1, now + RefreshTtl + 1}

\* C26: a call of a domain service that raises an error of the taxonomy
\* leaves the player, stats, user and token stores as they were before the
\* call; get_player, list_players, get_player_stats and get_user_info change
\* no store, whatever they return.
C26_RaisingCallsAndReadsChangeNothing ==
    /\ users = SeedUsers
    /\ \A username \in Usernames, email \in RawEmails,
          display_name \in DisplayNames :
           LET o == create_player(players, stats, now, NotDrawn, username, email,
                                  display_name)
           IN Raised(o) => (o.players = players /\ o.stats = stats)
    /\ \A player_id \in PlayerIds :
           /\ \A req \in UpdatePlayerRequests :
                  LET o == update_player(players, stats, now, player_id, req)
                  IN Raised(o) => (o.players = players /\ o.stats = stats)
           /\ LET o == delete_player(players, stats, player_id)
              IN Raised(o) => (o.players = players /\ o.stats = stats)
           /\ \A o \in {get_player(players, stats, player_id),
                        get_player_stats(players, stats, player_id),
                        list_players(players, stats)} :
                  o.players = players /\ o.stats = stats
    /\ \A tk \in IdpStores, clock \in IdpClocks :
           /\ \A username \in LoginNames, password \in Passwords :
                  LET o == authenticate(users, tk, clock, NotDrawn, NotDrawn,
                                        username, password)
                  IN Raised(o) => o.tokens = tk
           /\ \A token \in PresentedTokens :
                  /\ get_user_info(users, tk, clock, token).tokens = tk
                  /\ LET o == refresh_token(users, tk, clock, NotDrawn, token)
                     IN Raised(o) => o.tokens = tk

\* an update was refused as a conflict while two accounts are stored
C26_Witness ==
    /\ last.op = "update_player"
    /\ last.exc.type = "ConflictException"
    /\ Len(players) = 2
    /\ Len(stats) = 2

\* the event with a body that is present and is not JSON
WithInvalidBody(event) == [event EXCEPT !.body = Some(InvalidText)]

\* C27: both routers parse the body as JSON before they choose the route: a
\* request whose body is present and is not valid JSON is answered 500
\* INTERNAL_ERROR on every route, the GET and DELETE routes that ignore the
\* body and the methods and paths that match no route included; no store is
\* changed.
C27_InvalidJsonIs500OnEveryRoute ==
    /\ \A e \in PlayerEvents, hex \in TokenHex :
           LET h == player_lambda_handler(players, stats, now, hex,
                                          WithInvalidBody(e))
           IN /\ IsInternalError(h.response)
              /\ h.players = players
              /\ h.stats = stats
    /\ \A e \in IdpEvents, access_token \in {"tok_Ef7"}, refresh \in {"tok_Ab3"},
          tk \in IdpStores :
           LET h == idp_lambda_handler(users, tk, now, access_token, refresh,
                                       WithInvalidBody(e))
           IN /\ IsInternalError(h.response)
              /\ h.tokens = tk
    /\ \A method \in {"GET", "DELETE"}, player_id \in DictKeys(players),
          tail \in {<<>>, <<"stats">>} :
           LET h == player_lambda_handler(
                        players, stats, now, NotDrawn,
                        WithInvalidBody(ByIdEvent(method, player_id, tail)))
           IN /\ IsInternalError(h.response)
              /\ h.players = players
              /\ h.stats = stats

\* GET /health, which matches no route, with a body that is not JSON was
\* answered 500 while a player is stored
C27_Witness ==
    /\ last.op = "player_lambda_handler"
    /\ last.event = [httpMethod |-> "GET", path |-> <<"health">>, body |-> "invalid"]
    /\ last.response.statusCode = 500
    /\ last.response.error = "INTERNAL_ERROR"
    /\ Len(players) = 1

\* event["pathParameters"] without a player_id that is not empty: null, no
\* such key, the empty string
NoPlayerIdParams == {None, Some(EmptyMap), Some([k \in {"player_id"} |-> ""])}

\* the four routes that name a player: the method and what follows the id
ByIdRoutes ==
    {<<"GET", <<>>>>, <<"GET", <<"stats">>>>, <<"PUT", <<>>>>, <<"DELETE", <<>>>>}

\* the bodies of the requests to these routes: none, the empty text, a patch
ByIdBodies ==
    {None, Some(EmptyText), Some(JsonText(UpdateBody(Some("Neo"), None, None)))}

\* what the handler of the route does for player_id
ByIdHandler(method, tail, player_id, body) ==
    IF method = "GET" /\ tail = <<"stats">>
    THEN handle_get_player_stats(players, stats, now, player_id)
    ELSE IF method = "GET"
    THEN handle_get_player(players, stats, now, player_id)
    ELSE IF method = "PUT"
    THEN handle_update_player(players, stats, now, player_id, body)
    ELSE handle_delete_player(players, stats, now, player_id)

\* C28: on the four routes that name a player, a request whose path matches
\* and whose pathParameters are null or hold no player_id that is not empty
\* is answered 400, BAD_REQUEST, "player_id is required", the service is not
\* called and no store is changed; the id that is used is the path
\* parameter, never the segment of the path.
C28_PlayerIdComesFromPathParameters ==
    /\ \A route \in ByIdRoutes, in_path \in PlayerIds,
          path_params \in NoPlayerIdParams, body \in ByIdBodies :
           LET event == PlayerEvent(route[1], <<"players", in_path>> \o route[2],
                                    path_params, body)
               h == player_lambda_handler(players, stats, now, NotDrawn, event)
           IN /\ h.response =
                     create_error_response(400, "BAD_REQUEST",
                                           "player_id is required", now)
              /\ h.players = players
              /\ h.stats = stats
    /\ \A route \in ByIdRoutes, in_path \in PlayerIds, in_params \in PlayerIds,
          body \in ByIdBodies :
           LET event == PlayerEvent(route[1], <<"players", in_path>> \o route[2],
                                    Some([k \in {"player_id"} |-> in_params]), body)
           IN player_lambda_handler(players, stats, now, NotDrawn, event)
                  = ByIdHandler(route[1], route[2], in_params,
                                PlayerBody(event).value)

\* DELETE /players/{id} of a stored player without path parameters was
\* answered 400 and the player is still stored
C28_Witness ==
    /\ last.op = "player_lambda_handler"
    /\ last.event.httpMethod = "DELETE"
    /\ Len(last.event.path) = 2
    /\ last.id = ""
    /\ last.response.statusCode = 400
    /\ last.response.error = "BAD_REQUEST"
    /\ DictHas(players, last.event.path[2])

\* the fields of an account that no operation is to change
Identity(player) ==
    [player_id |-> player.player_id, username |-> player.username,
     created_at |-> player.created_at, level |-> player.level,
     experience_points |-> player.experience_points]

\* C29: no operation changes player_id, username, created_at, level or
\* experience_points of a stored player, and none changes a stats record
\* once it is created: after any sequence of operations every stats record
\* has all its counters at zero and the key of every account in the store
\* is its player_id field.
C29_IdentityFieldsAndStatsAreFixed ==
    [][/\ \A player_id \in DictKeys(players) \cap DictKeys(players') :
              Identity(DictGet(players', player_id))
                  = Identity(DictGet(players, player_id))
       /\ \A player_id \in DictKeys(stats) \cap DictKeys(stats') :
              DictGet(stats', player_id) = DictGet(stats, player_id)
       /\ \A i \in DOMAIN stats' : stats'[i].v = PlayerStats(stats'[i].k)
       /\ \A i \in DOMAIN players' : players'[i].v.player_id = players'[i].k]_vars

\* C30: in every reachable state the username of every token record is a
\* key of the user store and its user_id is the id of that user, the user
\* store being never written; so get_user_info on a stored access token
\* that has not expired succeeds and never raises NotFoundException("User
\* not found"), the identity router answers 404 to unmatched routes only,
\* and the user info returned holds no password.
C30_TokensBelongToStoredUsers ==
    /\ users = SeedUsers
    /\ \A t \in DOMAIN tokens :
           /\ tokens[t].username \in DOMAIN users
           /\ tokens[t].user_id = users[tokens[t].username].user_id
    /\ \A token \in PresentedTokens :
           LET o == get_user_info(users, tokens, now, token)
           IN /\ o.exc # NotFoundException("User not found")
              /\ (/\ MapHas(tokens, token)
                  /\ tokens[token].type = "access"
                  /\ ~IsExpired(tokens[token], now))
                     => /\ ~Raised(o)
                        /\ o.ret[1].username = tokens[token].username
                        /\ o.ret[1].user_id = tokens[token].user_id
              /\ ~Raised(o)
                     => /\ DOMAIN o.ret[1] = {"user_id", "username", "email",
                                              "is_active", "created_at"}
                        /\ \A field \in {"user_id", "username"} :
                               o.ret[1][field] # users[tokens[token].username].password
    /\ \A event \in IdpEvents :
           LET h == idp_lambda_handler(users, tokens, now, "tok_Ef7", "tok_Ab3", event)
           IN h.response.statusCode = 404
                  => /\ event \in IdpUnmatchedEvents
                     /\ IsEndpointNotFound(h.response, event)

\* get_user_info succeeded on an access token that a refresh had minted
C30_Witness ==
    /\ last.op = "get_user_info"
    /\ last.exc.type = "none"
    /\ MapHas(tokens, last.id)
    /\ tokens[last.id].type = "access"
    /\ Cardinality(DOMAIN tokens) = 3
    /\ ticks > 0

====
